---- MODULE Spec2Model ----
(***************************************************************************)
(* Vajra (src/vajra.py): the alert manager with its RAM cache cleaner, and *)
(* the metrics collector with its throttled process-table scan.            *)
(*                                                                         *)
(* Time is time.time() measured in ticks of 0.001 s, the epsilon that      *)
(* collect() substitutes for a zero interval (line 397).  Percentages are  *)
(* integers.                                                               *)
(***************************************************************************)
EXTENDS Integers, Sequences, FiniteSets, TLC

VARIABLES
    clock,          \* the value the last time.time() call returned
    os_type,        \* CacheCleaner.os_type
    last_trigger,   \* AlertManager.last_trigger: a dict, keys among {"memory"}
    alerts,         \* the list the last check() returned
    trace,          \* the steps the last check() performed, in order
    call,           \* history: inputs and outcome of the last check()
    crashed,        \* an exception left check(): the driver loop is gone
    calls,          \* history: number of check() calls made
    clean_times,    \* history: the clock at every CacheCleaner.clean() call
    streak,         \* history: the over-threshold calls since a trigger
    cpu_pattern,    \* history: how many calls, from the first, match CpuPattern
    settings,       \* AlertManager.cooldown and AlertManager.thresholds
    os_procs,       \* the OS process table: pid -> [inc, alive, cpu]
    last_net,       \* MetricsCollector.last_net
    last_time,      \* MetricsCollector.last_time
    procs,          \* MetricsCollector.procs: pid -> cached Process object
    cached_top_procs, \* MetricsCollector.cached_top_procs
    tick,           \* MetricsCollector.tick
    snapshot,       \* what the last collect() returned
    scan,           \* history: what the last collect() did
    os_events,      \* history: steps the OS process table has taken
    logs,           \* SysMonDashboard.logs
    added,          \* history: every entry add_log() was given, in order
    ranking         \* a proc_list and the top_procs computed from it

alert_vars == <<clock, os_type, last_trigger, alerts, trace, call, crashed,
                calls, clean_times, streak, cpu_pattern, settings>>

collect_vars == <<os_procs, last_net, last_time, procs, cached_top_procs,
                  tick, snapshot, scan, os_events>>

dash_vars == <<logs, added>>

vars == <<alert_vars, collect_vars, dash_vars, ranking>>

\* ---------------------------------------------------------------- bounds
MaxCalls == 6
\* collect() calls, pids, steps the OS process table may take, bytes a
\* network counter may show
MaxTicks == 8
MaxPid == 2
MaxOsEvents == 5
MaxBytes == 2
\* check() calls of a run in which the dashboard log is followed
MaxCycles == 4
\* length of a proc_list handed to the ranking, and its largest reading
MaxProcList == 6
MaxReading == 2

\* ------------------------------------------------------ program constants
TicksPerSecond == 1000
cooldown == 60
cpu_threshold == 85
memory_threshold == 90
ScanEvery == 4
TopN == 5
LogCap == 10
SleepTicks == 500

cooldown_ticks == cooldown * TicksPerSecond

\* ------------------------------------------------------------ input sets
\* time.time() when the monitor is constructed
StartClocks == {0, cooldown_ticks + 1}
\* how far time.time() has advanced since the previous call
Deltas == {0, 1, cooldown_ticks}
CpuPercents == {cpu_threshold, cpu_threshold + 1}
MemPercents == {memory_threshold, memory_threshold + 5}
OsTypes == {"windows", "linux", "darwin", "freebsd"}
\* what gc.collect() does: returns, or raises
GcEnvs == {"ok", "fault"}
\* what the platform lets the trim do: it works, it is refused, it faults
PlatformEnvs == {"success", "refused", "fault"}

\* ------------------------------------------------------------ CacheCleaner
Returned(v) == [raised |-> FALSE, value |-> v]
Raised == [raised |-> TRUE, value |-> FALSE]

\* count > 0 -> True, count = 0 -> False; psutil.pids() and the ctypes
\* lookups are outside the per-pid try and may raise
_windows_trim(env) ==
    CASE env = "success" -> Returned(TRUE)
      [] env = "refused" -> Returned(FALSE)
      [] OTHER -> Raised

\* everything is inside try/except Exception: a fault returns False
_linux_trim(env) ==
    IF env = "success" THEN Returned(TRUE) ELSE Returned(FALSE)

\* os.system(...) == 0, inside try/except Exception
_mac_trim(env) ==
    IF env = "success" THEN Returned(TRUE) ELSE Returned(FALSE)

\* the body of the try block of clean(): the result is
\* [raised, value, steps], steps being the steps attempted
clean_try(os, gc_env, plat_env) ==
    IF gc_env = "fault"
    THEN [raised |-> TRUE, value |-> FALSE, steps |-> <<"gc">>]
    ELSE \* success = True after gc.collect()
         LET trim == CASE os = "windows" -> _windows_trim(plat_env)
                       [] os = "linux" -> _linux_trim(plat_env)
                       [] os = "darwin" -> _mac_trim(plat_env)
                       [] OTHER -> Returned(FALSE)
             step == CASE os = "windows" -> <<"windows_trim">>
                       [] os = "linux" -> <<"linux_trim">>
                       [] os = "darwin" -> <<"mac_trim">>
                       [] OTHER -> << >>
         IN  [raised |-> trim.raised,
              value |-> (TRUE \/ trim.value),
              steps |-> <<"gc">> \o step]

\* an exception of the try block leaves clean(): what CacheCleaner.clean
\* would be without its except clause
clean_unguarded(os, gc_env, plat_env) ==
    clean_try(os, gc_env, plat_env)

\* the except clause resetting success: any exception gives False
clean_false_on_fault(os, gc_env, plat_env) ==
    LET t == clean_try(os, gc_env, plat_env)
    IN  [raised |-> FALSE, value |-> (~t.raised /\ t.value), steps |-> t.steps]

\* success starts False and is set True once gc.collect() returned; an
\* exception anywhere in the try block is logged and success keeps the
\* value it had; clean() returns it
clean(os, gc_env, plat_env) ==
    LET t == clean_try(os, gc_env, plat_env)
        success == IF t.raised THEN gc_env # "fault" ELSE t.value
    IN  [raised |-> FALSE, value |-> success, steps |-> t.steps]

\* ------------------------------------------------------------ AlertManager
Ev(ev, pct) == [ev |-> ev, pct |-> pct]
Alert(kind, pct) == [kind |-> kind, pct |-> pct]

\* the comparison made inclusive
cpu_exceeds_inclusive(cpu) == cpu >= cpu_threshold

cpu_exceeds(cpu) == cpu > settings.thresholds.cpu

memory_exceeds(mem) == mem > settings.thresholds.memory

\* self.last_trigger.get("memory", 0)
last_memory(lt) == IF "memory" \in DOMAIN lt THEN lt["memory"] ELSE 0

\* the cooldown test dropped: any later call passes
cooldown_ignored(now, last) == now - last >= 0

\* the cooldown taken twice as long
cooldown_doubled(now, last) == now - last > 2 * cooldown_ticks

cooldown_elapsed(now, last) ==
    now - last > settings.cooldown * TicksPerSecond

\* the notification after clean() returned
cleanup_note(cleaned) == IF cleaned THEN "ui_completed" ELSE "ui_skipped"

\* the alert appended before the cleaner has run
memory_steps_alert_first(mem, ui_callback, c) ==
    <<Ev("set_last", mem)>>
    \o (IF ui_callback THEN <<Ev("ui_detected", mem)>> ELSE << >>)
    \o <<Ev("alert_memory", mem), Ev("clean", mem)>>
    \o (IF c.raised \/ ~ui_callback THEN << >>
        ELSE <<Ev(cleanup_note(c.value), mem)>>)

\* the steps of the memory branch once the cooldown test passed, in
\* program order; c is what clean() did
memory_steps(mem, ui_callback, c) ==
    <<Ev("set_last", mem)>>
    \o (IF ui_callback THEN <<Ev("ui_detected", mem)>> ELSE << >>)
    \o <<Ev("clean", mem)>>
    \o (IF c.raised THEN << >>
        ELSE (IF ui_callback THEN <<Ev(cleanup_note(c.value), mem)>> ELSE << >>)
             \o <<Ev("alert_memory", mem)>>)

\* the memory alert returned on every breach, cooldown or not
check_alert_ungated(lt, now, cpu, mem, ui_callback, os, gc_env, plat_env) ==
    LET over == cpu > cpu_threshold
        fresh == mem > memory_threshold
                 /\ now - (IF "memory" \in DOMAIN lt THEN lt["memory"] ELSE 0)
                        > cooldown_ticks
        c == clean(os, gc_env, plat_env)
        cpu_alerts == IF over THEN <<Alert("High CPU usage", cpu)>> ELSE << >>
        cpu_steps == IF over THEN <<Ev("alert_cpu", cpu)>> ELSE << >>
        mem_alerts == IF mem > memory_threshold
                      THEN <<Alert("High Memory usage", mem)>> ELSE << >>
    IN  [last_trigger |-> IF fresh THEN [k \in {"memory"} |-> now] ELSE lt,
         alerts |-> cpu_alerts \o mem_alerts,
         trace |-> cpu_steps \o (IF fresh THEN memory_steps(mem, ui_callback, c)
                                 ELSE << >>),
         raised |-> FALSE, fresh |-> fresh,
         cleaned |-> fresh /\ c.value,
         steps |-> IF fresh THEN c.steps ELSE << >>]

\* the cooldown restarted by every breach, reclaimer invoked or not
check_restarts_cooldown(lt, now, cpu, mem, ui_callback, os, gc_env, plat_env) ==
    LET over == cpu > cpu_threshold
        fresh == mem > memory_threshold
                 /\ now - (IF "memory" \in DOMAIN lt THEN lt["memory"] ELSE 0)
                        > cooldown_ticks
        c == clean(os, gc_env, plat_env)
        cpu_alerts == IF over THEN <<Alert("High CPU usage", cpu)>> ELSE << >>
        cpu_steps == IF over THEN <<Ev("alert_cpu", cpu)>> ELSE << >>
    IN  [last_trigger |-> IF mem > memory_threshold
                          THEN [k \in {"memory"} |-> now] ELSE lt,
         alerts |-> cpu_alerts \o (IF fresh
                                   THEN <<Alert("High Memory usage", mem)>>
                                   ELSE << >>),
         trace |-> cpu_steps \o (IF fresh THEN memory_steps(mem, ui_callback, c)
                                 ELSE << >>),
         raised |-> FALSE, fresh |-> fresh,
         cleaned |-> fresh /\ c.value,
         steps |-> IF fresh THEN c.steps ELSE << >>]

\* check(): the new last_trigger, the returned alerts, the steps taken
check(lt, now, cpu, mem, ui_callback, os, gc_env, plat_env) ==
    LET cpu_alerts == IF cpu_exceeds(cpu)
                      THEN <<Alert("High CPU usage", cpu)>> ELSE << >>
        cpu_steps == IF cpu_exceeds(cpu)
                     THEN <<Ev("alert_cpu", cpu)>> ELSE << >>
        fresh == memory_exceeds(mem) /\ cooldown_elapsed(now, last_memory(lt))
        c == clean(os, gc_env, plat_env)
    IN  IF ~fresh
        THEN [last_trigger |-> lt, alerts |-> cpu_alerts, trace |-> cpu_steps,
              raised |-> FALSE, fresh |-> FALSE,
              cleaned |-> FALSE, steps |-> << >>]
        ELSE [last_trigger |-> [k \in DOMAIN lt \cup {"memory"} |-> now],
              alerts |-> IF c.raised THEN << >>
                         ELSE cpu_alerts \o <<Alert("High Memory usage", mem)>>,
              trace |-> cpu_steps \o memory_steps(mem, ui_callback, c),
              raised |-> c.raised, fresh |-> TRUE,
              cleaned |-> c.value, steps |-> c.steps]

\* ------------------------------------------------------------- driver loop
NoCall == [now |-> 0, cpu |-> 0, mem |-> 0, had_last |-> FALSE, last |-> 0,
           fresh |-> FALSE, cleaned |-> FALSE, steps |-> << >>,
           gc_env |-> "none", plat_env |-> "none", streak_before |-> 0]

NoStreak == [n |-> 0, cleans |-> 0, start |-> 0]

\* history: the run of consecutive over-threshold calls that began with a
\* trigger and lies within the cooldown of it
next_streak(s, now, mem, fresh) ==
    IF s.n >= 1 /\ memory_exceeds(mem) /\ now - s.start < cooldown_ticks
    THEN [n |-> s.n + 1, cleans |-> s.cleans + (IF fresh THEN 1 ELSE 0),
          start |-> s.start]
    ELSE IF fresh THEN [n |-> 1, cleans |-> 1, start |-> now]
    ELSE NoStreak

\* the cycles of the CPU scenario: an alert on cycles 1, 2 and 4, none on 3
CpuPattern == <<TRUE, TRUE, FALSE, TRUE>>

Range(s) == {s[i] : i \in 1..Len(s)}

\* history: the calls so far returned CPU alerts exactly as CpuPattern says
next_pattern(p, n, returned) ==
    IF p = n /\ n < Len(CpuPattern)
       /\ (("High CPU usage" \in {a.kind : a \in Range(returned)})
           <=> CpuPattern[n + 1])
    THEN n + 1 ELSE 0

\* AlertManager.__init__, CacheCleaner.__init__ and the history
AlertStart(clocks, oss) ==
    /\ clock \in clocks
    /\ os_type \in oss
    /\ last_trigger = << >>
    /\ alerts = << >>
    /\ trace = << >>
    /\ call = NoCall
    /\ crashed = FALSE
    /\ calls = 0
    /\ clean_times = << >>
    /\ streak = NoStreak
    /\ cpu_pattern = 0
    /\ settings = [cooldown |-> cooldown,
                   thresholds |-> [cpu |-> cpu_threshold,
                                   memory |-> memory_threshold]]

\* alert_manager.check(metrics, ui_callback=dashboard.add_log) as called
\* by start_monitor's loop, with the history of the call
CheckCall(d, cpu, mem, gc_env, plat_env) ==
    /\ ~crashed
    /\ \E now \in {clock + d} :
       \E r \in {check(last_trigger, now, cpu, mem, TRUE, os_type,
                        gc_env, plat_env)} :
           \* gc is consulted only when clean() runs, the platform only
           \* when clean() reaches a platform step
           /\ r.fresh \/ gc_env = "ok"
           /\ Len(r.steps) = 2 \/ plat_env = "success"
           /\ clock' = now
           /\ last_trigger' = r.last_trigger
           /\ alerts' = r.alerts
           /\ trace' = r.trace
           /\ crashed' = r.raised
           /\ call' = [now |-> now, cpu |-> cpu, mem |-> mem,
                       had_last |-> "memory" \in DOMAIN last_trigger,
                       last |-> last_memory(last_trigger),
                       fresh |-> r.fresh, cleaned |-> r.cleaned,
                       steps |-> r.steps,
                       gc_env |-> IF r.fresh THEN gc_env ELSE "none",
                       plat_env |-> IF Len(r.steps) = 2 THEN plat_env
                                    ELSE "none",
                       streak_before |-> streak.n]
           /\ clean_times' = IF r.fresh THEN Append(clean_times, now)
                             ELSE clean_times
           /\ streak' = next_streak(streak, now, mem, r.fresh)
           /\ cpu_pattern' = next_pattern(cpu_pattern, calls, r.alerts)
    /\ calls' = calls + 1
    /\ UNCHANGED <<os_type, settings, collect_vars, ranking>>

\* ---------------------------------------------------------- SysMonDashboard
\* datetime.now().strftime("%H:%M:%S"): hour, minute and second of the day
timestamp(now) ==
    LET s == (now \div TicksPerSecond) % 86400
    IN  <<s \div 3600, (s % 3600) \div 60, s % 60>>

\* the oldest entries kept instead of the newest
add_log_keeps_oldest(lg, message, now) ==
    LET l == Append(lg, [time |-> timestamp(now), message |-> message])
    IN  IF Len(l) > LogCap THEN SubSeq(l, 1, LogCap) ELSE l

\* self.logs.append(f"[{timestamp}] {message}"); self.logs = self.logs[-10:]
add_log(lg, message, now) ==
    LET l == Append(lg, [time |-> timestamp(now), message |-> message])
    IN  IF Len(l) > LogCap THEN SubSeq(l, Len(l) - LogCap + 1, Len(l)) ELSE l

RECURSIVE add_logs(_, _, _)
add_logs(lg, messages, now) ==
    IF messages = << >> THEN lg
    ELSE add_logs(add_log(lg, Head(messages), now), Tail(messages), now)

\* the text check() hands to ui_callback; pct is the number in the text,
\* -1 for a text without one
ui_message(e) ==
    CASE e.ev = "ui_detected" ->
             [text |-> "High memory detected. Cleaning RAM...", pct |-> e.pct]
      [] e.ev = "ui_completed" ->
             [text |-> "RAM cleanup completed (best-effort)", pct |-> -1]
      [] OTHER ->
             [text |-> "RAM cleanup skipped (OS restricted)", pct |-> -1]

alert_message(a) == [text |-> a.kind, pct |-> a.pct]

\* the messages of one cycle in the order add_log() receives them: the
\* notifications during check(), then the returned alerts
cycle_messages(tr, al) ==
    LET notes == SelectSeq(tr, LAMBDA e : e.ev \in {"ui_detected",
                                                    "ui_completed",
                                                    "ui_skipped"})
    IN  [i \in 1..Len(notes) |-> ui_message(notes[i])]
        \o [i \in 1..Len(al) |-> alert_message(al[i])]

DashStart ==
    /\ logs = << >>
    /\ added = << >>

\* one cycle of start_monitor's loop as far as the alert manager goes;
\* the dashboard is not followed
Check(d, cpu, mem, gc_env, plat_env) ==
    /\ calls < MaxCalls
    /\ CheckCall(d, cpu, mem, gc_env, plat_env)
    /\ UNCHANGED dash_vars

\* the same cycle with the dashboard log: check() with
\* ui_callback=dashboard.add_log, then add_log() for every returned alert
Cycle(d, cpu, mem, gc_env, plat_env) ==
    /\ calls < MaxCycles
    /\ CheckCall(d, cpu, mem, gc_env, plat_env)
    /\ \E ms \in {cycle_messages(trace', alerts')} :
           /\ logs' = add_logs(logs, ms, clock')
           /\ added' = added \o [i \in 1..Len(ms) |->
                                    [time |-> timestamp(clock'),
                                     message |-> ms[i]]]

\* ======================================================= MetricsCollector
Pids == 1..MaxPid
Counters == 0..MaxBytes
NoBase == -1

NetReading(sent, recv) == [bytes_sent |-> sent, bytes_recv |-> recv]

\* a pid no process has held yet
Unborn == [inc |-> 0, alive |-> FALSE, cpu |-> 0]

LivePids(os) == {p \in Pids : os[p].alive}

\* psutil.Process(pid) as process_iter hands it out: it stands for the
\* process holding the pid now (ident) and has no cpu baseline yet
NewProcess(os, pid) == [ident |-> os[pid].inc, base |-> NoBase]

\* Process.cpu_percent(interval=None): the cpu time the holder of the pid
\* has used now, less the baseline the object stored at its previous call
\* (0.0 at a first call); the object's baseline becomes the time used now.
\* The unit is cpu-time steps; psutil's scaling by elapsed time is left out.
cpu_percent(obj, used) ==
    [value |-> IF obj.base = NoBase THEN 0 ELSE used - obj.base,
     obj |-> [obj EXCEPT !.base = used]]

\* the removal of dead pids left out
remove_dead_skipped(pr, current_pids) == pr

\* for pid in cached_pids - current_pids: del self.procs[pid]
remove_dead(pr, current_pids) ==
    [p \in DOMAIN pr \cap current_pids |-> pr[p]]

Without(pr, pid) == [p \in DOMAIN pr \ {pid} |-> pr[p]]

With(pr, pid, obj) == [p \in DOMAIN pr \cup {pid} |-> IF p = pid THEN obj ELSE pr[p]]

\* the cached object is taken whatever process holds the pid now
scan_lookup(pr, os, pid) ==
    IF pid \notin DOMAIN pr
    THEN cpu_percent(NewProcess(os, pid), os[pid].cpu).obj
    ELSE pr[pid]

\* a failing pid left in the cache
scan_one_keeps_failed(st, os, pid, fails) ==
    IF pid \in fails
    THEN st
    ELSE LET p == IF pid \notin DOMAIN st.procs
                  THEN [ident |-> os[pid].inc, base |-> os[pid].cpu]
                  ELSE st.procs[pid]
         IN  [procs |-> [q \in DOMAIN st.procs \cup {pid} |->
                            IF q = pid THEN [p EXCEPT !.base = os[pid].cpu]
                            ELSE st.procs[q]],
              proc_list |-> Append(st.proc_list,
                                   [pid |-> pid,
                                    cpu_percent |-> os[pid].cpu - p.base]),
              used |-> [q \in DOMAIN st.used \cup {pid} |->
                            IF q = pid THEN p.ident ELSE st.used[q]]]

\* the body of the loop over process_iter for one pid; st is
\* [procs, proc_list, used]: the cache, the entries so far, and for each
\* pid read the process the baseline of its reading was taken from
scan_one(st, os, pid, fails) ==
    IF pid \in fails
    THEN \* NoSuchProcess / AccessDenied: drop the pid, go on
         [st EXCEPT !.procs = Without(st.procs, pid)]
    ELSE LET p == scan_lookup(st.procs, os, pid)
             r == cpu_percent(p, os[pid].cpu)
         IN  [procs |-> With(st.procs, pid, r.obj),
              proc_list |-> Append(st.proc_list,
                                   [pid |-> pid, cpu_percent |-> r.value]),
              used |-> With(st.used, pid, p.ident)]

\* the first k pids of process_iter, which yields live pids in pid order
RECURSIVE scan_upto(_, _, _, _)
scan_upto(st, os, k, fails) ==
    IF k = 0 THEN st
    ELSE LET live == LivePids(os)
             before == scan_upto(st, os, k - 1, fails)
             pid == CHOOSE p \in live :
                        Cardinality({q \in live : q < p}) = k - 1
         IN  scan_one(before, os, pid, fails)

\* a sort that puts a later entry before the earlier ones of equal key
RECURSIVE insert_desc_unstable(_, _)
insert_desc_unstable(x, sorted) ==
    IF sorted = << >> THEN <<x>>
    ELSE IF Head(sorted).cpu_percent > x.cpu_percent
         THEN <<Head(sorted)>> \o insert_desc_unstable(x, Tail(sorted))
         ELSE <<x>> \o sorted

\* sorted(proc_list, key=cpu_percent, reverse=True): a stable sort, equal
\* keys keep their order
RECURSIVE insert_desc(_, _)
insert_desc(x, sorted) ==
    IF sorted = << >> THEN <<x>>
    ELSE IF Head(sorted).cpu_percent >= x.cpu_percent
         THEN <<Head(sorted)>> \o insert_desc(x, Tail(sorted))
         ELSE <<x>> \o sorted

RECURSIVE sort_desc(_)
sort_desc(l) ==
    IF l = << >> THEN << >>
    ELSE insert_desc(l[Len(l)], sort_desc(SubSeq(l, 1, Len(l) - 1)))

top(l) == SubSeq(sort_desc(l), 1, IF Len(l) < TopN THEN Len(l) ELSE TopN)

\* an aborted scan that forgets the cached list
scan_procs_clears_on_abort(pr, cached, os, fails, abort, abort_k) ==
    IF abort = "none"
    THEN LET live == LivePids(os)
             st == scan_upto([procs |-> [p \in DOMAIN pr \cap live |-> pr[p]],
                              proc_list |-> << >>, used |-> << >>],
                             os, Cardinality(live), fails)
         IN  [procs |-> st.procs,
              top_procs |-> SubSeq(sort_desc(st.proc_list), 1,
                                   IF Len(st.proc_list) < TopN
                                   THEN Len(st.proc_list) ELSE TopN),
              cached |-> SubSeq(sort_desc(st.proc_list), 1,
                                IF Len(st.proc_list) < TopN
                                THEN Len(st.proc_list) ELSE TopN),
              used |-> st.used, completed |-> TRUE]
    ELSE [procs |-> pr, top_procs |-> << >>, cached |-> << >>,
          used |-> << >>, completed |-> FALSE]

\* the try block of the scan; abort says where an unexpected exception
\* ends it: "none", "pids" (in psutil.pids(), before anything is changed)
\* or "iter" (in the loop, after abort_k pids were handled)
scan_procs(pr, cached, os, fails, abort, abort_k) ==
    LET live == LivePids(os)
        st0 == [procs |-> remove_dead(pr, live), proc_list |-> << >>,
                used |-> << >>]
        n == Cardinality(live)
        k == IF abort = "iter" /\ abort_k < n THEN abort_k ELSE n
        st == scan_upto(st0, os, k, fails)
    IN  IF abort = "pids"
        THEN [procs |-> pr, top_procs |-> cached, cached |-> cached,
              used |-> << >>, completed |-> FALSE]
        ELSE IF abort = "iter"
        THEN [procs |-> st.procs, top_procs |-> cached, cached |-> cached,
              used |-> st.used, completed |-> FALSE]
        ELSE [procs |-> st.procs, top_procs |-> top(st.proc_list),
              cached |-> top(st.proc_list),
              used |-> st.used, completed |-> TRUE]

\* the pids the loop over process_iter handles before the scan ends
Reached(os, abort, abort_k) ==
    CASE abort = "pids" -> {}
      [] abort = "iter" ->
             {p \in LivePids(os) :
                 Cardinality({q \in LivePids(os) : q < p}) < abort_k}
      [] OTHER -> LivePids(os)

\* the throttle taken off by two: every 2nd call scans
scan_due_every_other(t) == t % 2 = 0

scan_due(t) == t % ScanEvery = 0

\* (current - previous) / dt in bytes per second, as the exact fraction
\* num / den; dt is in ticks of 0.001 s
rate(cur, prev, dt) == [num |-> (cur - prev) * TicksPerSecond, den |-> dt]

\* if dt == 0: dt = 0.001
interval(now, last) == IF now - last = 0 THEN 1 ELSE now - last

NoScan == [scanned |-> FALSE, completed |-> FALSE, used |-> << >>,
           live |-> << >>, prev_net |-> NetReading(0, 0), net |-> NetReading(0, 0),
           last_scan_top |-> << >>,
           n |-> 0, before |-> {}, fails |-> {}, abort |-> "none",
           cached_before |-> << >>, last_good |-> << >>, after_abort |-> -1]

\* tick counted twice in a call
next_tick_twice(t) == t + 2

\* self.tick += 1
next_tick(t) == t + 1

\* MetricsCollector.__init__ and the OS beside it
CollectStart(readings) ==
    /\ os_procs = [p \in Pids |-> Unborn]
    /\ os_events = 0
    /\ last_net \in readings
    /\ last_time = clock
    /\ procs = << >>
    /\ cached_top_procs = << >>
    /\ tick = 0
    /\ snapshot = [net_sent |-> rate(0, 0, 1), net_recv |-> rate(0, 0, 1),
                   top_procs |-> << >>]
    /\ scan = NoScan

\* collect(): d is how far time.time() moved, net what net_io_counters()
\* reads, fails the pids whose queries raise NoSuchProcess or AccessDenied
collect(d, net, fails, abort, abort_k) ==
    /\ tick < MaxTicks
    /\ \E now \in {clock + d} :
       \E due \in {scan_due(next_tick(tick))} :
       \E r \in {IF due
                 THEN scan_procs(procs, cached_top_procs, os_procs, fails,
                                 abort, abort_k)
                 ELSE [procs |-> procs, top_procs |-> cached_top_procs,
                       cached |-> cached_top_procs, used |-> << >>,
                       completed |-> FALSE]} :
           \* the process table is consulted only by a scan
           /\ due \/ (fails = {} /\ abort = "none")
           \* a failure is an input only for a pid the scan gets to
           /\ fails \subseteq Reached(os_procs, abort, abort_k)
           /\ abort = "iter" \/ abort_k = 0
           /\ abort_k <= Cardinality(LivePids(os_procs))
           /\ clock' = now
           /\ last_net' = net
           /\ last_time' = now
           /\ tick' = next_tick(tick)
           /\ procs' = r.procs
           /\ cached_top_procs' = r.cached
           /\ snapshot' =
                 [net_sent |-> rate(net.bytes_sent, last_net.bytes_sent,
                                    interval(now, last_time)),
                  net_recv |-> rate(net.bytes_recv, last_net.bytes_recv,
                                    interval(now, last_time)),
                  top_procs |-> r.top_procs]
           /\ scan' = [scanned |-> due, completed |-> r.completed,
                       used |-> r.used,
                       live |-> IF due
                                THEN [p \in LivePids(os_procs) |-> os_procs[p].inc]
                                ELSE << >>,
                       prev_net |-> last_net, net |-> net,
                       last_scan_top |-> IF due THEN r.top_procs
                                         ELSE scan.last_scan_top,
                       n |-> scan.n + 1,
                       before |-> DOMAIN procs,
                       fails |-> fails,
                       abort |-> abort,
                       cached_before |-> cached_top_procs,
                       last_good |-> IF r.completed THEN r.top_procs
                                     ELSE scan.last_good,
                       after_abort |-> IF due /\ abort # "none" THEN 0
                                       ELSE IF scan.after_abort < 0 THEN -1
                                       ELSE scan.after_abort + 1]
    /\ UNCHANGED <<os_procs, os_events, os_type, last_trigger, alerts, trace,
                   call, crashed, calls, clean_times, streak, cpu_pattern,
                   settings, dash_vars, ranking>>

\* ------------------------------------------------------- the OS beside it
\* a new process is given a free pid
Spawn(pid) ==
    /\ os_events < MaxOsEvents
    /\ ~os_procs[pid].alive
    /\ os_procs' = [os_procs EXCEPT
                       ![pid] = [inc |-> @.inc + 1, alive |-> TRUE, cpu |-> 0]]
    /\ os_events' = os_events + 1
    /\ UNCHANGED <<alert_vars, dash_vars, ranking,
                   last_net, last_time, procs, cached_top_procs,
                   tick, snapshot, scan>>

Exit(pid) ==
    /\ os_events < MaxOsEvents
    /\ os_procs[pid].alive
    /\ os_procs' = [os_procs EXCEPT ![pid].alive = FALSE, ![pid].cpu = 0]
    /\ os_events' = os_events + 1
    /\ UNCHANGED <<alert_vars, dash_vars, ranking,
                   last_net, last_time, procs, cached_top_procs,
                   tick, snapshot, scan>>

\* a live process uses cpu time
Run(pid) ==
    /\ os_events < MaxOsEvents
    /\ os_procs[pid].alive
    /\ os_procs' = [os_procs EXCEPT ![pid].cpu = @ + 1]
    /\ os_events' = os_events + 1
    /\ UNCHANGED <<alert_vars, dash_vars, ranking,
                   last_net, last_time, procs, cached_top_procs,
                   tick, snapshot, scan>>

\* -------------------------------------------------------------- the ranking
\* the proc_lists of up to MaxProcList entries in enumeration order:
\* process_iter yields pids in ascending order
ProcLists ==
    UNION {{[i \in 1..n |-> [pid |-> i, cpu_percent |-> f[i]]] :
               f \in [1..n -> 0..MaxReading]} : n \in 0..MaxProcList}

RankStart(lists) ==
    \E l \in lists :
        ranking = [proc_list |-> l, top_procs |-> << >>, done |-> FALSE]

\* top_procs = sorted(proc_list, key=..., reverse=True)[:5] on its own
Rank ==
    /\ ~ranking.done
    /\ ranking' = [ranking EXCEPT !.top_procs = top(ranking.proc_list),
                                  !.done = TRUE]
    /\ UNCHANGED <<alert_vars, collect_vars, dash_vars>>

\* ---------------------------------------------------------- specifications
AlertInit ==
    /\ AlertStart(StartClocks, OsTypes)
    /\ CollectStart({NetReading(0, 0)})
    /\ DashStart
    /\ RankStart({<< >>})

AlertNext ==
    \E d \in Deltas, cpu \in CpuPercents, mem \in MemPercents,
       gc_env \in GcEnvs, plat_env \in PlatformEnvs :
        Check(d, cpu, mem, gc_env, plat_env)

SpecAlert == AlertInit /\ [][AlertNext]_vars

\* the network side of collect(): the counters and the clock vary, the
\* process table stays empty
NetInit ==
    /\ AlertStart({0}, {"linux"})
    /\ CollectStart({NetReading(a, b) : a, b \in Counters})
    /\ DashStart
    /\ RankStart({<< >>})

NetNext ==
    \E d \in {0, SleepTicks}, a, b \in Counters :
        collect(d, NetReading(a, b), {}, "none", 0)

SpecNet == NetInit /\ [][NetNext]_vars

\* the process side of collect(): processes come, run and go between the
\* calls, the network counters stand still
ProcInit ==
    /\ AlertStart({0}, {"linux"})
    /\ CollectStart({NetReading(0, 0)})
    /\ DashStart
    /\ RankStart({<< >>})

ProcCollect ==
    \E fails \in SUBSET Pids, abort \in {"none", "pids", "iter"},
       abort_k \in 0..MaxPid :
        collect(SleepTicks, NetReading(0, 0), fails, abort, abort_k)

ProcNext ==
    \/ ProcCollect
    \/ \E pid \in Pids : Spawn(pid)
    \/ \E pid \in Pids : Exit(pid)
    \/ \E pid \in Pids : Run(pid)

SpecProc == ProcInit /\ [][ProcNext]_vars

\* the dashboard log over the cycles of the loop: every cycle calls
\* check() and logs what it notified and returned; the clock advances by
\* the loop's sleep or by more than the cooldown
LogInit ==
    /\ AlertStart({0}, {"linux"})
    /\ CollectStart({NetReading(0, 0)})
    /\ DashStart
    /\ RankStart({<< >>})

LogNext ==
    \E d \in {SleepTicks, cooldown_ticks + 1}, cpu \in CpuPercents,
       mem \in MemPercents, gc_env \in GcEnvs :
        Cycle(d, cpu, mem, gc_env, "success")

SpecLog == LogInit /\ [][LogNext]_vars

\* the ranking of a scan on every proc_list up to the bounds
RankInit ==
    /\ AlertStart({0}, {"linux"})
    /\ CollectStart({NetReading(0, 0)})
    /\ DashStart
    /\ RankStart(ProcLists)

SpecRank == RankInit /\ [][Rank]_vars

\* the monitor as a whole; the alert manager and the collector share no
\* state but the clock, and each is explored under its own specification
Init ==
    /\ AlertStart(StartClocks, OsTypes)
    /\ CollectStart({NetReading(a, b) : a, b \in Counters})
    /\ DashStart
    /\ RankStart(ProcLists)

Next == AlertNext \/ LogNext \/ NetNext \/ ProcNext \/ Rank

Spec == Init /\ [][Next]_vars

\* ================================================================ claims
TraceEvents == {e.ev : e \in Range(trace)}
AlertKinds == {a.kind : a \in Range(alerts)}
RecognisedOs == {"windows", "linux", "darwin"}

\* the event names of the memory branch as the last check() performed them
MemoryTrace == SelectSeq([i \in 1..Len(trace) |-> trace[i].ev],
                         LAMBDA e : e # "alert_cpu")

\* C1: any two invocations of the reclaimer are at least the cooldown of
\* 60 seconds apart, and over a run of consecutive over-threshold calls
\* that starts with a trigger and stays within 60 seconds of it the
\* reclaimer is invoked exactly once.
C1_Debounce ==
    /\ \A i, j \in 1..Len(clean_times) :
          i < j => clean_times[j] - clean_times[i] >= cooldown * TicksPerSecond
    /\ streak.n >= 1 => streak.cleans = 1

\* a run of 5 over-threshold calls within the cooldown saw one invocation,
\* and the call after it, past the cooldown, is the second invocation
C1_Witness ==
    /\ call.streak_before >= 5
    /\ call.fresh
    /\ Len(clean_times) = 2

\* C2 (as amended): after a memory trigger at time T, a check() call with
\* memory percent above the threshold at a time now with now - T strictly
\* greater than 60 seconds invokes the reclaimer and sets last_triggered_at
\* to now.
C2_FreshAfterCooldown ==
    (/\ calls >= 1
     /\ call.had_last
     /\ call.mem > memory_threshold
     /\ call.now - call.last > cooldown * TicksPerSecond)
    => /\ call.fresh
       /\ Len(clean_times) >= 2
       /\ clean_times[Len(clean_times)] = call.now
       /\ "memory" \in DOMAIN last_trigger
       /\ last_trigger["memory"] = call.now

C2_Witness ==
    /\ call.had_last
    /\ call.mem > memory_threshold
    /\ call.now - call.last = cooldown * TicksPerSecond + 1
    /\ call.fresh

\* C2 (as claimed): the same with now - T >= 60 seconds, the case
\* now - T = exactly 60 seconds included.
C2_Original ==
    (/\ calls >= 1
     /\ call.had_last
     /\ call.mem > memory_threshold
     /\ call.now - call.last >= cooldown * TicksPerSecond)
    => /\ call.fresh
       /\ "memory" \in DOMAIN last_trigger
       /\ last_trigger["memory"] = call.now

\* C3: when the memory rule has never triggered, a check() call whose
\* memory percent exceeds the threshold is a fresh trigger whatever the
\* clock reads: the reclaimer is invoked and the memory alert is returned.
C3_FirstTriggerAnyClock ==
    (/\ calls >= 1
     /\ ~call.had_last
     /\ call.mem > memory_threshold)
    => /\ call.fresh
       /\ Alert("High Memory usage", call.mem) \in Range(alerts)

\* C4: a check() call returns a High CPU usage alert if and only if its cpu
\* percent is strictly greater than 85, whatever the earlier calls, the
\* memory percent and the state of the memory cooldown.
C4_CpuNoDebounce ==
    calls >= 1 =>
        /\ (Alert("High CPU usage", call.cpu) \in Range(alerts))
               <=> (call.cpu > cpu_threshold)
        /\ ("High CPU usage" \in AlertKinds) <=> (call.cpu > cpu_threshold)

\* CPU alerts on cycles 1, 2 and 4 and none on cycle 3, the fourth of them
\* returned by a call that the memory cooldown silenced
C4_Witness ==
    /\ cpu_pattern = Len(CpuPattern)
    /\ call.mem > memory_threshold
    /\ ~call.fresh
    /\ call.had_last

\* C5: a fresh memory trigger records last_triggered_at, emits the detected
\* notification, invokes the reclaimer, emits exactly one of completed and
\* skipped (completed if and only if the reclaimer returned true) and only
\* then adds the High Memory usage alert, in this order within the call.
C5_TriggerOrder ==
    (calls >= 1 /\ call.fresh) =>
        /\ MemoryTrace = <<"set_last", "ui_detected", "clean",
                           IF call.cleaned THEN "ui_completed" ELSE "ui_skipped",
                           "alert_memory">>
        /\ last_trigger["memory"] = call.now
        /\ Len(alerts) >= 1
        /\ alerts[Len(alerts)] = Alert("High Memory usage", call.mem)

C5_Witness ==
    /\ call.fresh
    /\ ~call.cleaned
    /\ "ui_skipped" \in TraceEvents
    /\ "alert_cpu" \in TraceEvents

\* a step of clean() let an exception out: gc.collect(), or the Windows
\* trim outside its per-pid try
StepRaised ==
    \/ call.gc_env = "fault"
    \/ (os_type = "windows" /\ call.plat_env = "fault")

\* C6 (as amended): if a step of the reclamation raises during a fresh
\* memory trigger, the exception does not leave check(), the memory alert
\* is still returned, and the skipped notification is emitted exactly when
\* the raising step is the generic one; when the generic step completed and
\* the platform step raised, the completed notification is emitted.
C6_FaultContained ==
    (calls >= 1 /\ call.fresh /\ StepRaised) =>
        /\ ~crashed
        /\ "High Memory usage" \in AlertKinds
        /\ ("ui_skipped" \in TraceEvents) <=> (call.gc_env = "fault")
        /\ ("ui_completed" \in TraceEvents) <=> (call.gc_env # "fault")

C6_Witness ==
    /\ call.fresh
    /\ os_type = "windows"
    /\ call.plat_env = "fault"
    /\ "ui_completed" \in TraceEvents
    /\ ~crashed

\* C6 (as claimed): whichever step raises, the exception does not leave
\* check() and the skipped notification, not the completed one, is emitted.
C6_Original ==
    (calls >= 1 /\ call.fresh /\ StepRaised) =>
        /\ ~crashed
        /\ "ui_skipped" \in TraceEvents
        /\ "ui_completed" \notin TraceEvents

NonNegative(r) == r.num * r.den >= 0

\* C8: the net_sent and net_recv rates collect() reports are never
\* negative, and a raw counter lower than at the previous call gives a
\* rate of exactly 0 for that call.
C8_RatesNonNegative ==
    tick >= 1 =>
        /\ NonNegative(snapshot.net_sent)
        /\ NonNegative(snapshot.net_recv)
        /\ scan.net.bytes_sent < scan.prev_net.bytes_sent
              => snapshot.net_sent.num = 0
        /\ scan.net.bytes_recv < scan.prev_net.bytes_recv
              => snapshot.net_recv.num = 0

\* C9: the process table is scanned on the calls 4, 8, 12, ... and on no
\* other, and a call that does not scan returns the top_procs list that the
\* latest scanning call returned, whatever the OS process table has become.
C9_ScanThrottled ==
    tick >= 1 =>
        /\ scan.scanned <=> (tick % 4 = 0)
        /\ ~scan.scanned =>
              /\ snapshot.top_procs = scan.last_scan_top
              /\ snapshot.top_procs = cached_top_procs
              /\ tick < 4 => snapshot.top_procs = << >>

\* the third call after a scan returns the scan's list although a process
\* in it has exited since and another has appeared
C9_Witness ==
    /\ tick % 4 = 3
    /\ ~scan.scanned
    /\ snapshot.top_procs # << >>
    /\ \E i \in 1..Len(snapshot.top_procs) :
          ~os_procs[snapshot.top_procs[i].pid].alive
    /\ \E p \in LivePids(os_procs) :
          \A i \in 1..Len(snapshot.top_procs) : snapshot.top_procs[i].pid # p

\* C10: the cpu reading a scan computes for a process never rests on the
\* tracking entry made for an earlier process that held the same pid.
C10_NoStaleBaseline ==
    scan.scanned =>
        \A p \in DOMAIN scan.used : scan.used[p] = scan.live[p]

TopPids == {snapshot.top_procs[i].pid : i \in 1..Len(snapshot.top_procs)}

C12_PerProcessFailureContained ==
    (scan.scanned /\ scan.abort = "none")
        => /\ scan.completed
           /\ \A p \in scan.fails : p \notin DOMAIN procs /\ p \notin TopPids
           /\ \A p \in DOMAIN scan.live \ scan.fails :
                  /\ p \in DOMAIN procs
                  /\ p \in DOMAIN scan.used
                  /\ Cardinality(DOMAIN scan.live \ scan.fails) <= TopN
                         => p \in TopPids

\* a tracked pid failed in a scan and another pid was read and listed
C12_Witness ==
    /\ scan.scanned
    /\ scan.abort = "none"
    /\ \E p \in scan.fails \cap scan.before :
       \E q \in DOMAIN scan.live \ scan.fails :
           p \notin DOMAIN procs /\ q \in TopPids

\* C16: tick is the number of collect() calls made so far, whether a call
\* scanned or not and whether its scan ran to the end or not
C16_TickCountsCalls == tick = scan.n

\* a scan was aborted and the tick still went up by one
C16_Witness ==
    /\ scan.scanned
    /\ ~scan.completed
    /\ scan.n = 2 * ScanEvery

\* C19: a call whose scan is aborted by an unexpected error returns a
\* snapshot whose top_procs is the list of the last scan that ran to the
\* end (empty if none did), leaves cached_top_procs as it was, and the
\* next scan comes 4 calls later, not sooner
C19_AbortedScanKeepsList ==
    /\ (scan.scanned /\ scan.abort # "none")
          => /\ ~scan.completed
             /\ snapshot.top_procs = scan.last_good
             /\ cached_top_procs = scan.cached_before
             /\ cached_top_procs = scan.last_good
    /\ scan.after_abort \in 1..(ScanEvery - 1) => ~scan.scanned
    /\ scan.after_abort = ScanEvery => scan.scanned

\* a scan was aborted after an earlier scan had listed a process
C19_Witness ==
    /\ scan.scanned
    /\ scan.abort # "none"
    /\ scan.last_good # << >>
    /\ snapshot.top_procs = scan.last_good

\* C15 as stated: in clean() a fault of the generic step does not keep the
\* platform step from being attempted, and clean() returns true exactly
\* when one of the two steps succeeded
C15_StepsIndependent ==
    call.fresh
        => /\ (call.gc_env = "fault" /\ os_type \in RecognisedOs)
                  => Len(call.steps) = 2
           /\ call.cleaned
                  <=> (call.gc_env = "ok" \/ call.plat_env = "success")

Notifications == {"ui_detected", "ui_completed", "ui_skipped"}

\* C17: a check() call returns the 'High Memory usage' alert exactly when
\* it invoked the reclaimer; a breach of the memory threshold inside the
\* cooldown returns no memory alert and sends no notification
C17_AlertGatedWithReclaimer ==
    /\ ("High Memory usage" \in AlertKinds) <=> ("clean" \in TraceEvents)
    /\ ("clean" \in TraceEvents) <=> call.fresh
    /\ (calls > 0 /\ call.mem > memory_threshold /\ call.had_last
          /\ call.now - call.last <= cooldown_ticks)
          => /\ "High Memory usage" \notin AlertKinds
             /\ TraceEvents \cap (Notifications \cup {"clean", "set_last"}) = {}

\* a breach of the memory threshold arrived inside the cooldown
C17_Witness ==
    /\ calls > 0
    /\ call.mem > memory_threshold
    /\ call.had_last
    /\ call.now - call.last <= cooldown_ticks
    /\ ~call.fresh
    /\ "High Memory usage" \notin AlertKinds

\* C18: a check() call that invokes the reclaimer sets
\* last_trigger['memory'] to its clock reading; every other call (memory
\* at or below the threshold, inside the cooldown, CPU alert or not)
\* leaves last_trigger as it was; cooldown and thresholds keep the values
\* the constructor gave them
C18_LastTriggerFrame ==
    /\ DOMAIN last_trigger \subseteq {"memory"}
    /\ calls > 0
          => IF "clean" \in TraceEvents
             THEN /\ "memory" \in DOMAIN last_trigger
                  /\ last_trigger["memory"] = call.now
                  /\ call.now = clock
             ELSE /\ ("memory" \in DOMAIN last_trigger) <=> call.had_last
                  /\ call.had_last => last_trigger["memory"] = call.last
    /\ settings = [cooldown |-> 60, thresholds |-> [cpu |-> 85, memory |-> 90]]

\* a breach inside the cooldown, with a CPU alert, left last_trigger alone
C18_Witness ==
    /\ calls > 0
    /\ call.had_last
    /\ call.mem > memory_threshold
    /\ call.cpu > cpu_threshold
    /\ "clean" \notin TraceEvents
    /\ last_trigger["memory"] = call.last
    /\ call.last < call.now

Position(l, e) == CHOOSE i \in 1..Len(l) : l[i] = e

\* C13: the top_procs of a scan has at most 5 entries, all taken from the
\* scanned proc_list, in descending order of cpu_percent; no entry left
\* out has a higher cpu_percent than one kept, and entries of equal
\* cpu_percent stand in their enumeration order, the earlier ones kept
\* first
C13_TopFiveStable ==
    ranking.done
        => LET l == ranking.proc_list
               t == ranking.top_procs
               kept == Range(t)
               left == Range(l) \ Range(t)
           IN  /\ Len(t) <= 5
               /\ Len(t) = IF Len(l) < 5 THEN Len(l) ELSE 5
               /\ kept \subseteq Range(l)
               /\ Cardinality(kept) = Len(t)
               /\ \A i, j \in 1..Len(t) :
                      i < j => /\ t[i].cpu_percent >= t[j].cpu_percent
                               /\ t[i].cpu_percent = t[j].cpu_percent
                                      => Position(l, t[i]) < Position(l, t[j])
               /\ \A x \in left, y \in kept :
                      /\ y.cpu_percent >= x.cpu_percent
                      /\ y.cpu_percent = x.cpu_percent
                             => Position(l, y) < Position(l, x)

\* more than 5 entries were ranked, with equal readings among the kept
\* ones and across the cut
C13_Witness ==
    /\ ranking.done
    /\ Len(ranking.proc_list) > 5
    /\ Len(ranking.top_procs) = 5
    /\ ranking.top_procs[1].cpu_percent > ranking.top_procs[5].cpu_percent
    /\ ranking.top_procs[4].cpu_percent = ranking.top_procs[5].cpu_percent
    /\ \E x \in Range(ranking.proc_list) \ Range(ranking.top_procs) :
           x.cpu_percent = ranking.top_procs[5].cpu_percent

\* C14: after any sequence of add_log() calls the log holds at most 10
\* entries, and they are the entries added last, in the order they were
\* added
C14_RollingLog ==
    /\ Len(logs) <= 10
    /\ Len(logs) = IF Len(added) < 10 THEN Len(added) ELSE 10
    /\ \A i \in 1..Len(logs) : logs[i] = added[Len(added) - Len(logs) + i]

\* more than 10 entries were added, alerts and notifications among them
C14_Witness ==
    /\ Len(added) > 10
    /\ Len(logs) = 10
    /\ logs[10] = added[Len(added)]
    /\ logs[1] # added[1]
    /\ \E i, j \in 1..Len(logs) :
           /\ logs[i].message.text = "High CPU usage"
           /\ logs[j].message.text = "RAM cleanup completed (best-effort)"

====
